---- MODULE Spec2Model ----
(***************************************************************************)
(* State-machine model of lve::LveSwapChain (src/src/lve_swap_chain.cpp):  *)
(* construction of the swap chain and its per-image resources, the         *)
(* acquire / submit / present cycle with its fences, and destruction.      *)
(*                                                                         *)
(* The host is a single thread.  A call that waits on a fence is split at  *)
(* the wait: the call is entered, and it goes on once the fence is         *)
(* signaled.  The GPU retires queue submissions concurrently with the      *)
(* host, in any order, and signals the fence of each one it retires.       *)
(*                                                                         *)
(* C++ indices are 0-based; a sequence s of the model holds s[i + 1] where *)
(* the code holds s[i].                                                    *)
(***************************************************************************)
EXTENDS Integers, Sequences, FiniteSets

\* ------------------------------------------------------------------ bounds

\* Largest number of swap chain images the platform creates.
MaxImages == 3

\* Largest number of unretired queue submissions the model lists one by one.
MaxPending == 3

\* Largest swap chain handle a predecessor swap chain holds.
MaxOldHandle == 1

\* --------------------------------------------------------------- constants

\* Size of the ring of frame slots (declared in lve_swap_chain.hpp).
MAX_FRAMES_IN_FLIGHT == 2

\* The null handle: a default-constructed vk::Fence(), vk::SwapchainKHR(), ...
VK_NULL_HANDLE == 0

\* A null std::shared_ptr<LveSwapChain>; a non-null one is <<object>>.
nullptr == <<>>

eSuccess == "eSuccess"
eSuboptimalKHR == "eSuboptimalKHR"
eErrorOutOfDateKHR == "eErrorOutOfDateKHR"
eErrorSurfaceLostKHR == "eErrorSurfaceLostKHR"

\* Result codes vkAcquireNextImageKHR / vkQueuePresentKHR hand back.
ResultCodes == {eSuccess, eSuboptimalKHR, eErrorOutOfDateKHR, eErrorSurfaceLostKHR}

\* The codes with which vkAcquireNextImageKHR hands out an image.
AcquiredCodes == {eSuccess, eSuboptimalKHR}

\* The value of an acquire that handed out no image, and of "no argument".
NoImage == -1

\* The result of a call that has not returned yet.
Running == "running"

FrameSlots == 0 .. (MAX_FRAMES_IN_FLIGHT - 1)

\* ------------------------------------------------------------------- state

VARIABLES
    phase,        \* "unconstructed", "ready" (constructed), "destroyed", "faulted",
                  \* or "partial": the constructor threw and there is no object
    sc,           \* the LveSwapChain object: its data members (in phase "partial",
                  \* what the members held when the exception left the constructor)
    fences,       \* platform: fence handle -> signaled?
    pending,      \* platform: graphics-queue submissions the GPU has not retired
    pc,           \* host thread: "idle", "acquire_wait", "submit_wait"
    imageIndex,   \* *imageIndex of the submitCommandBuffers call in progress
    returned,     \* the caller's latest call: its name, what it returned
                  \* (Running until it returns) and, for a constructor, the
                  \* predecessor passed
    platform,     \* the latest call made to the platform: what it handed back
                  \* and, for createSwapchainKHR, its createInfo
    destroyed,    \* the destroy calls the destructor issued, in order
    slotUsed,     \* history: frame slots a queue submission was made on
    scenario,     \* history: progress through the 3-image end-to-end scenario
    negotiation,  \* a call of a capability-negotiation function: [fn, arg, ret]
    created,      \* the steps of init() that have completed, in order
    presentWaits, \* the waits queued presents have yet to make: [semaphore, image]
                  \* (kept while every present was of an image an acquire handed out)
    afterAcquire, \* history: every submit so far followed an acquire of its image index
    untracked     \* more than MaxPending submissions were unretired at once: from
                  \* then on pending is not kept, and any unsignaled fence may
                  \* be signaled by the GPU (each one has a submission that resets it)

vars == <<phase, sc, fences, pending, pc, imageIndex,
          returned, platform, destroyed, slotUsed, scenario,
          negotiation,
          created,
          presentWaits,
          afterAcquire,
          untracked>>

\* ----------------------------------------------------------------- helpers

\* std::vector::resize(n): keep the first n elements, pad with v.
Resize(s, n, v) == [i \in 1 .. n |-> IF i <= Len(s) THEN s[i] ELSE v]

\* s with s[i] = v, for a 0-based index i.
SetAt(s, i, v) == [s EXCEPT ![i + 1] = v]

\* s without its k-th element (1-based).
RemoveAt(s, k) == [i \in 1 .. (Len(s) - 1) |-> IF i < k THEN s[i] ELSE s[i + 1]]

\* ------------------------------------------------------------ construction

\* The data members before a constructor body runs: default-constructed
\* handles and vectors, currentFrame = 0 (member initialisers of the header).
DefaultMembers(prev) ==
    [ oldSwapChain             |-> prev,
      swapChain                |-> VK_NULL_HANDLE,
      swapChainImages          |-> <<>>,
      swapChainImageViews      |-> <<>>,
      renderPass               |-> VK_NULL_HANDLE,
      depthImages              |-> <<>>,
      depthImageMemorys        |-> <<>>,
      depthImageViews          |-> <<>>,
      swapChainFramebuffers    |-> <<>>,
      imageAvailableSemaphores |-> <<>>,
      renderFinishedSemaphores |-> <<>>,
      inFlightFences           |-> <<>>,
      imagesInFlight           |-> <<>>,
      currentFrame             |-> 0 ]

\* size_t imageCount() of the header: the number of swap chain images.
imageCount(o) == Len(o.swapChainImages)

\* createSwapChain, lines 127-131: the image count asked of the platform.
\* (uint32_t arithmetic; the counts of the model stay far below 2^32.)
\* Variant of the image count request without the cap at maxImageCount.
RequestedImageCount_Uncapped(c) == c.minImageCount + 1

RequestedImageCount(c) ==
    IF c.maxImageCount > 0 /\ c.minImageCount + 1 > c.maxImageCount
    THEN c.maxImageCount
    ELSE c.minImageCount + 1

\* Variant of SwapchainCreateInfo: the predecessor is never passed on.
SwapchainCreateInfo_NoHint(o, c) ==
    [ minImageCount |-> RequestedImageCount(c),
      oldSwapchain  |-> VK_NULL_HANDLE ]

\* createSwapChain, lines 133-161: the fields of createInfo the model keeps.
SwapchainCreateInfo(o, c) ==
    [ minImageCount |-> RequestedImageCount(c),
      oldSwapchain  |-> IF o.oldSwapChain = nullptr
                        THEN VK_NULL_HANDLE
                        ELSE o.oldSwapChain[1].swapChain ]

\* createSwapChain: the platform made swap chain h with n images.
createSwapChain(o, h, n) ==
    [o EXCEPT !.swapChain = h,
              !.swapChainImages = [i \in 1 .. n |-> i]]

\* createImageViews: one color view per swap chain image.
createImageViews(o) ==
    [o EXCEPT !.swapChainImageViews =
        [i \in 1 .. Len(o.swapChainImages) |-> o.swapChainImages[i]]]

\* createRenderPass: the render pass handle (a non-null handle).
createRenderPass(o) == [o EXCEPT !.renderPass = 1]

\* createDepthResources: image, memory and view per swap chain image.
createDepthResources(o) ==
    [o EXCEPT !.depthImages       = [i \in 1 .. imageCount(o) |-> i],
              !.depthImageMemorys = [i \in 1 .. imageCount(o) |-> i],
              !.depthImageViews   = [i \in 1 .. imageCount(o) |-> i]]

\* A default-constructed vk::Framebuffer (swapChainFramebuffers.resize).
NullFramebuffer ==
    [handle |-> VK_NULL_HANDLE, color |-> VK_NULL_HANDLE, depth |-> VK_NULL_HANDLE]

\* createFramebuffers: framebuffer i binds color view i and depth view i.
createFramebuffers(o) ==
    [o EXCEPT !.swapChainFramebuffers =
        [i \in 1 .. imageCount(o) |->
            [handle |-> i,
             color |-> o.swapChainImageViews[i], depth |-> o.depthImageViews[i]]]]

\* Variant of createSyncObjects: the per-image fences are sized by the
\* number of frame slots instead of the number of images.
createSyncObjects_PerSlot(o) ==
    [o EXCEPT !.imageAvailableSemaphores = [i \in 1 .. MAX_FRAMES_IN_FLIGHT |-> i],
              !.renderFinishedSemaphores = [i \in 1 .. MAX_FRAMES_IN_FLIGHT |-> i],
              !.inFlightFences           = [i \in 1 .. MAX_FRAMES_IN_FLIGHT |-> i],
              !.imagesInFlight =
                  Resize(o.imagesInFlight, MAX_FRAMES_IN_FLIGHT, VK_NULL_HANDLE)]

\* createSyncObjects: semaphores and fences per frame slot (slot i gets
\* handle i + 1), and a null per-image fence for every image.
createSyncObjects(o) ==
    [o EXCEPT !.imageAvailableSemaphores = [i \in 1 .. MAX_FRAMES_IN_FLIGHT |-> i],
              !.renderFinishedSemaphores = [i \in 1 .. MAX_FRAMES_IN_FLIGHT |-> i],
              !.inFlightFences           = [i \in 1 .. MAX_FRAMES_IN_FLIGHT |-> i],
              !.imagesInFlight = Resize(o.imagesInFlight, imageCount(o), VK_NULL_HANDLE)]

\* Variant of CreatedFences: the fences are created without eSignaled.
CreatedFences_Unsignaled(o) == [f \in 1 .. MAX_FRAMES_IN_FLIGHT |-> FALSE]

\* createSyncObjects, lines 318-325: every fence is created eSignaled.
CreatedFences(o) == [f \in 1 .. MAX_FRAMES_IN_FLIGHT |-> TRUE]

\* init(), lines 27-32: the six creation steps, in order.
initSteps ==
    << "createSwapChain", "createImageViews", "createRenderPass",
       "createDepthResources", "createFramebuffers", "createSyncObjects" >>

\* One step of init() applied to the object.
RunStep(step, o, h, n) ==
    CASE step = "createSwapChain"      -> createSwapChain(o, h, n)
      [] step = "createImageViews"     -> createImageViews(o)
      [] step = "createRenderPass"     -> createRenderPass(o)
      [] step = "createDepthResources" -> createDepthResources(o)
      [] step = "createFramebuffers"   -> createFramebuffers(o)
      [] step = "createSyncObjects"    -> createSyncObjects(o)

\* The steps applied one after the other.
RECURSIVE RunSteps(_, _, _, _)
RunSteps(steps, o, h, n) ==
    IF steps = << >> THEN o
    ELSE RunSteps(Tail(steps), RunStep(Head(steps), o, h, n), h, n)

\* init(): the six creation steps, in order.
init(o, h, n) == RunSteps(initSteps, o, h, n)

\* The capabilities a device can report: minImageCount >= 1, and a
\* maxImageCount of 0 (no limit) or at least minImageCount.
Capabilities ==
    { c \in [minImageCount : 1 .. MaxImages, maxImageCount : 0 .. MaxImages] :
        /\ c.maxImageCount = 0 \/ c.maxImageCount >= c.minImageCount
        /\ RequestedImageCount(c) <= MaxImages }

\* The image counts the platform may create for a request: at least the
\* requested minimum, at most the reported maximum.
PlatformImageCounts(c) ==
    RequestedImageCount(c) ..
        (IF c.maxImageCount > 0 THEN c.maxImageCount ELSE MaxImages)

\* The predecessors a caller can pass: none, or a live swap chain object.
Predecessors == {nullptr} \cup { <<[swapChain |-> h]>> : h \in 1 .. MaxOldHandle }

\* The handle the platform gives the swap chain it creates.
NewHandle == MaxOldHandle + 1

\* LveSwapChain(device, extent), lines 14-17: oldSwapChain stays null.
Construct ==
    /\ phase = "unconstructed"
    /\ \E c \in Capabilities : \E n \in PlatformImageCounts(c) :
        LET before == DefaultMembers(nullptr)
            after == init(before, NewHandle, n)
        IN  /\ returned' = [op |-> "LveSwapChain", result |-> eSuccess,
                             value |-> NoImage, previous |-> nullptr]
            /\ platform' = [call |-> "createSwapchainKHR", result |-> eSuccess,
                             value |-> NoImage,
                             createInfo |-> SwapchainCreateInfo(before, c)]
            /\ sc' = after
            /\ fences' = CreatedFences(after)
    /\ created' = initSteps
    /\ phase' = "ready"
    /\ UNCHANGED <<pending, pc, imageIndex, destroyed,
                   slotUsed, scenario,
                   negotiation,
                   presentWaits,
                   afterAcquire, untracked>>

\* LveSwapChain(device, extent, previous), lines 19-24: init() runs with
\* oldSwapChain = previous, and then oldSwapChain = nullptr.
ConstructFrom ==
    /\ phase = "unconstructed"
    /\ \E p \in Predecessors :
       \E c \in Capabilities : \E n \in PlatformImageCounts(c) :
        LET before == DefaultMembers(p)
            after == init(before, NewHandle, n)
        IN  /\ returned' = [op |-> "LveSwapChain", result |-> eSuccess,
                             value |-> NoImage, previous |-> p]
            /\ platform' = [call |-> "createSwapchainKHR", result |-> eSuccess,
                             value |-> NoImage,
                             createInfo |-> SwapchainCreateInfo(before, c)]
            /\ sc' = [after EXCEPT !.oldSwapChain = nullptr]
            /\ fences' = CreatedFences(after)
    /\ created' = initSteps
    /\ phase' = "ready"
    /\ UNCHANGED <<pending, pc, imageIndex, destroyed,
                   slotUsed, scenario,
                   negotiation,
                   presentWaits,
                   afterAcquire, untracked>>

\* ------------------------------------------------- init() stopping early

\* How many calls that can throw a step of init() makes one after the other.
\* createSwapChain: getSwapChainSupport (line 121), findPhysicalQueueFamilies
\* (line 142), createSwapchainKHR (line 163), getSwapchainImagesKHR (line 169).
\* createRenderPass: findDepthFormat (line 195), createRenderPass (line 248).
\* createDepthResources: findDepthFormat (line 269), then createImageWithInfo
\* (line 294) and createImageView (line 307) per image.  createSyncObjects:
\* two createSemaphore and one createFence per frame slot (lines 322-324).
\* The other steps: one create call per object.
StepCalls(step, n) ==
    CASE step = "createSwapChain"      -> 4
      [] step = "createImageViews"     -> n
      [] step = "createRenderPass"     -> 2
      [] step = "createDepthResources" -> 1 + 2 * n
      [] step = "createFramebuffers"   -> n
      [] step = "createSyncObjects"    -> 3 * MAX_FRAMES_IN_FLIGHT

\* The vector s with only its first e elements created: the others are as
\* resize() left them.
NullAfter(s, e, null) == [i \in 1 .. Len(s) |-> IF i <= e THEN s[i] ELSE null]

\* The object a step of init() leaves behind when the call it makes after t
\* calls have returned throws.  A handle is assigned when its create call
\* returns; the loops have resized their vectors before their first call.
ThrowIn(step, o, h, n, t) ==
    LET full == RunStep(step, o, h, n) IN
    CASE step = "createSwapChain"  ->
            IF t <= 2 THEN o ELSE [o EXCEPT !.swapChain = h]
      [] step = "createImageViews" ->
            [o EXCEPT !.swapChainImageViews =
                NullAfter(full.swapChainImageViews, t, VK_NULL_HANDLE)]
      [] step = "createRenderPass" -> o
      [] step = "createDepthResources" ->
            IF t = 0 THEN o
            ELSE [o EXCEPT
                    !.depthImages =
                        NullAfter(full.depthImages, t \div 2, VK_NULL_HANDLE),
                    !.depthImageMemorys =
                        NullAfter(full.depthImageMemorys, t \div 2, VK_NULL_HANDLE),
                    !.depthImageViews =
                        NullAfter(full.depthImageViews, (t - 1) \div 2, VK_NULL_HANDLE)]
      [] step = "createFramebuffers" ->
            [o EXCEPT !.swapChainFramebuffers =
                NullAfter(full.swapChainFramebuffers, t, NullFramebuffer)]
      [] step = "createSyncObjects" ->
            [full EXCEPT !.imageAvailableSemaphores =
                             NullAfter(full.imageAvailableSemaphores, (t + 2) \div 3,
                                       VK_NULL_HANDLE),
                         !.renderFinishedSemaphores =
                             NullAfter(full.renderFinishedSemaphores, (t + 1) \div 3,
                                       VK_NULL_HANDLE),
                         !.inFlightFences =
                             NullAfter(full.inFlightFences, t \div 3, VK_NULL_HANDLE)]

\* What the platform saw of createSwapchainKHR (line 163) when init() stopped
\* in step k at call t + 1: the call was not reached, it threw, or it had
\* handed back the swap chain.
CreateSwapchainCall(k, t, info) ==
    IF k = 1 /\ t < 2
    THEN platform
    ELSE [call |-> "createSwapchainKHR",
          result |-> IF k = 1 /\ t = 2 THEN "exception" ELSE eSuccess,
          value |-> NoImage, createInfo |-> info]

\* A constructor whose init() stops in step k: the steps before it have
\* completed, and step k throws at its call number t + 1.  The exception
\* leaves the constructor, so no object comes to exist and ~LveSwapChain()
\* is not run: sc is what the members held when the exception left.
ConstructFails ==
    /\ phase = "unconstructed"
    /\ \E p \in Predecessors :
       \E c \in Capabilities : \E n \in PlatformImageCounts(c) :
       \E k \in 1 .. Len(initSteps) :
       \E t \in 0 .. (StepCalls(initSteps[k], n) - 1) :
        LET before == DefaultMembers(p)
            done == RunSteps(SubSeq(initSteps, 1, k - 1), before, NewHandle, n)
            after == ThrowIn(initSteps[k], done, NewHandle, n, t)
        IN  /\ returned' = [op |-> "LveSwapChain", result |-> "exception",
                             value |-> NoImage, previous |-> p]
            /\ platform' = CreateSwapchainCall(k, t, SwapchainCreateInfo(before, c))
            /\ sc' = after
            /\ fences' = [f \in 1 .. Len(after.inFlightFences) |->
                            after.inFlightFences[f] # VK_NULL_HANDLE]
            /\ created' = SubSeq(initSteps, 1, k - 1)
    /\ phase' = "partial"
    /\ UNCHANGED <<pending, pc, imageIndex, destroyed,
                   slotUsed, scenario,
                   negotiation, presentWaits, afterAcquire, untracked>>

\* -------------------------------------------------- capability negotiation

\* Bound: the largest ordinary extent component (width or height).
MaxExtent == 2

\* Bound: the longest list of present modes a device reports.
MaxPresentModes == 3

\* std::numeric_limits<uint32_t>::max().  The function only compares extent
\* components and takes their minimum and maximum, so the model keeps the
\* order of uint32_t and not its size: the limit is the value above every
\* ordinary component.
UINT32_MAX == MaxExtent + 1

eImmediate == "eImmediate"
eMailbox == "eMailbox"
eFifo == "eFifo"
eFifoRelaxed == "eFifoRelaxed"

\* The present modes a device can report.
PresentModes == {eImmediate, eMailbox, eFifo, eFifoRelaxed}

\* std::min and std::max on uint32_t.
Min(a, b) == IF b < a THEN b ELSE a
Max(a, b) == IF a < b THEN b ELSE a

\* Variant of chooseSwapExtent: the window extent is capped by the maximum
\* extent but not raised to the minimum extent.
chooseSwapExtent_NoLowerClamp(capabilities, windowExtent) ==
    IF capabilities.currentExtent.width # UINT32_MAX
    THEN capabilities.currentExtent
    ELSE [ width  |-> Min(capabilities.maxImageExtent.width, windowExtent.width),
           height |-> Min(capabilities.maxImageExtent.height, windowExtent.height) ]

\* chooseSwapExtent, lines 361-375.
chooseSwapExtent(capabilities, windowExtent) ==
    IF capabilities.currentExtent.width # UINT32_MAX
    THEN capabilities.currentExtent
    ELSE [ width  |-> Max(capabilities.minImageExtent.width,
                          Min(capabilities.maxImageExtent.width, windowExtent.width)),
           height |-> Max(capabilities.minImageExtent.height,
                          Min(capabilities.maxImageExtent.height, windowExtent.height)) ]

\* The loop of chooseSwapPresentMode, lines 343-348, from element k on: the
\* first eMailbox found is returned; past the end, line 358 returns eFifo.
RECURSIVE PresentModeFrom(_, _)
PresentModeFrom(availablePresentModes, k) ==
    IF k > Len(availablePresentModes) THEN eFifo
    ELSE IF availablePresentModes[k] = eMailbox THEN availablePresentModes[k]
    ELSE PresentModeFrom(availablePresentModes, k + 1)

\* Variant of chooseSwapPresentMode: only the first list element is looked at.
chooseSwapPresentMode_FirstOnly(availablePresentModes) ==
    IF Len(availablePresentModes) >= 1 /\ availablePresentModes[1] = eMailbox
    THEN eMailbox
    ELSE eFifo

\* chooseSwapPresentMode, lines 341-359.
chooseSwapPresentMode(availablePresentModes) ==
    PresentModeFrom(availablePresentModes, 1)

\* The value of negotiation while no negotiation function has been called.
NoNegotiation == [fn |-> "none", arg |-> << >>, ret |-> << >>]

Extents(W, H) == [width : W, height : H]

\* The surface capabilities and window extents chooseSwapExtent is called
\* with: the minimum extent is within the maximum extent, and the current
\* extent is an ordinary extent or carries UINT32_MAX.
ExtentArgs ==
    { a \in [ currentExtent  : Extents(0 .. UINT32_MAX, 0 .. UINT32_MAX),
              minImageExtent : Extents(0 .. MaxExtent, 0 .. MaxExtent),
              maxImageExtent : Extents(0 .. MaxExtent, 0 .. MaxExtent),
              windowExtent   : Extents(0 .. MaxExtent, 0 .. MaxExtent) ] :
        /\ a.minImageExtent.width <= a.maxImageExtent.width
        /\ a.minImageExtent.height <= a.maxImageExtent.height }

\* The present mode lists chooseSwapPresentMode is called with.
PresentModeArgs ==
    UNION { [1 .. len -> PresentModes] : len \in 0 .. MaxPresentModes }

\* The image count limits createSwapChain reads: a minimum of at least 1 and
\* a maximum of 0 (no limit) or at least the minimum.
ImageCountArgs ==
    { c \in [minImageCount : 1 .. MaxImages, maxImageCount : 0 .. MaxImages] :
        c.maxImageCount = 0 \/ c.maxImageCount >= c.minImageCount }

\* A caller has a negotiation function called with an argument.
NegotiationCalls ==
    { [fn |-> "chooseSwapExtent", arg |-> a, ret |-> << >>] : a \in ExtentArgs }
    \cup { [fn |-> "chooseSwapPresentMode", arg |-> a, ret |-> << >>] :
             a \in PresentModeArgs }
    \cup { [fn |-> "imageCount", arg |-> a, ret |-> << >>] : a \in ImageCountArgs }

\* createSwapChain, line 125: chooseSwapExtent(swapChainSupport.capabilities).
CallChooseSwapExtent ==
    /\ negotiation.fn = "chooseSwapExtent"
    /\ negotiation.ret = << >>
    /\ negotiation' = [negotiation EXCEPT
          !.ret = << chooseSwapExtent(negotiation.arg, negotiation.arg.windowExtent) >>]
    /\ UNCHANGED <<phase, sc, fences, pending, pc,
                   imageIndex, returned, platform, destroyed, slotUsed, scenario,
                   created, presentWaits, afterAcquire, untracked>>

\* createSwapChain, line 124: chooseSwapPresentMode(swapChainSupport.presentModes).
CallChooseSwapPresentMode ==
    /\ negotiation.fn = "chooseSwapPresentMode"
    /\ negotiation.ret = << >>
    /\ negotiation' = [negotiation EXCEPT
          !.ret = << chooseSwapPresentMode(negotiation.arg) >>]
    /\ UNCHANGED <<phase, sc, fences, pending, pc,
                   imageIndex, returned, platform, destroyed, slotUsed, scenario,
                   created, presentWaits, afterAcquire, untracked>>

\* createSwapChain, lines 127-135: the image count put into createInfo.
CallImageCount ==
    /\ negotiation.fn = "imageCount"
    /\ negotiation.ret = << >>
    /\ negotiation' = [negotiation EXCEPT
          !.ret = << RequestedImageCount(negotiation.arg) >>]
    /\ UNCHANGED <<phase, sc, fences, pending, pc,
                   imageIndex, returned, platform, destroyed, slotUsed, scenario,
                   created, presentWaits, afterAcquire, untracked>>

\* ------------------------------------------------- history (observers only)

\* The end-to-end scenario of a 3-image swap chain: acquire hands out image
\* 0, submit, acquire hands out image 1, submit, acquire hands out image 2,
\* every call returning eSuccess.  step counts the calls of the scenario that
\* have completed; frames lists the currentFrame each of its acquires ran
\* with; waited tells that the third acquire was entered while the fence of
\* its frame slot was unsignaled.  A run that departs from the scenario is
\* marked step = -1.
ScenarioStart == [step |-> 0, frames |-> <<>>, waited |-> FALSE]
ScenarioLeft == [step |-> -1, frames |-> <<>>, waited |-> FALSE]

ScenarioEnter(s, signaled) ==
    IF s.step = 4 /\ ~signaled THEN [s EXCEPT !.waited = TRUE] ELSE s

ScenarioAcquire(s, r, i, frame) ==
    IF s.step \in {0, 2, 4} /\ r = eSuccess /\ i = s.step \div 2
    THEN [s EXCEPT !.step = s.step + 1, !.frames = Append(s.frames, frame)]
    ELSE ScenarioLeft

ScenarioSubmit(s, r, i) ==
    IF s.step \in {1, 3} /\ r = eSuccess /\ i = (s.step - 1) \div 2
    THEN [s EXCEPT !.step = s.step + 1]
    ELSE ScenarioLeft

\* ------------------------------------------------------ acquire and submit

\* Variant of waitForFences: a wait with timeout 0, which returns at once.
waitForFences_NoTimeout(f) == TRUE

\* device.waitForFences(f, VK_TRUE, UINT64_MAX) returns once f is signaled.
waitForFences(f) == fences[f]

\* presentQueue().presentKHR(presentInfo), lines 102-110: the present of the
\* image waits on the semaphore before the image is shown.  The wait is queued
\* whatever code the call returns.  (One wait is kept per semaphore, the
\* latest.)
PresentQueued(waits, image, sem) ==
    { w \in waits : w.semaphore # sem } \cup { [semaphore |-> sem, image |-> image] }

\* acquireNextImageKHR handing out an image, lines 71-75: the image comes back
\* from the presentation engine, so the wait of its last present has been
\* made, provided the submission that signals its semaphore has retired.
PresentDone(waits, image) ==
    { w \in waits :
        \/ w.image # image
        \/ \E k \in 1 .. Len(pending) : pending[k].signal = w.semaphore }

\* Variant of AcquireFenceWait: the wait returns once any frame slot's fence
\* is signaled.
AcquireFenceWait_AnySlot(o) ==
    \E i \in 1 .. Len(o.inFlightFences) : waitForFences(o.inFlightFences[i])

\* Variant of AcquireFenceWait: acquireNextImage without its fence wait.
AcquireFenceWait_Skipped(o) == TRUE

\* acquireNextImage, lines 66-69: the wait on the current slot's fence.
AcquireFenceWait(o) == waitForFences(o.inFlightFences[o.currentFrame + 1])

\* The caller enters acquireNextImage(); it waits on the current slot's fence.
acquireNextImageEnter ==
    /\ phase = "ready"
    /\ pc = "idle"
    /\ pc' = "acquire_wait"
    /\ returned' = [op |-> "acquireNextImage", result |-> Running, value |-> NoImage]
    /\ platform' = [call |-> "waitForFences", result |-> Running, value |-> NoImage]
    /\ scenario' = ScenarioEnter(scenario, fences[sc.inFlightFences[sc.currentFrame + 1]])
    /\ UNCHANGED <<phase, sc, fences, pending,
                   imageIndex, destroyed, slotUsed,
                   negotiation,
                   created,
                   presentWaits,
                   afterAcquire, untracked>>

\* acquireNextImage(), lines 66-77: past the wait on inFlightFences[currentFrame],
\* the platform hands back a result code and, with it, an image index.
acquireNextImage ==
    /\ phase = "ready"
    /\ pc = "acquire_wait"
    /\ AcquireFenceWait(sc)
    /\ \E r \in ResultCodes :
       \E i \in IF r \in AcquiredCodes THEN 0 .. (imageCount(sc) - 1) ELSE {NoImage} :
          /\ platform' = [call |-> "acquireNextImageKHR", result |-> r, value |-> i]
          /\ returned' = [op |-> "acquireNextImage", result |-> r, value |-> i]
          /\ scenario' = ScenarioAcquire(scenario, r, i, sc.currentFrame)
          /\ presentWaits' = PresentDone(presentWaits, i)
    /\ pc' = "idle"
    /\ UNCHANGED <<phase, sc, fences, pending,
                   imageIndex,
                   destroyed, slotUsed,
                   negotiation,
                   created,
                   afterAcquire, untracked>>

\* The call follows an acquireNextImage that handed out image index i.
FollowsAcquire(i) ==
    /\ returned.op = "acquireNextImage"
    /\ returned.result \in AcquiredCodes
    /\ returned.value = i

\* The caller enters submitCommandBuffers(buffers, &imageIndex), line 80: the
\* function takes whatever index of a swap chain image the caller passes,
\* whether or not an acquire handed it out, and waits on the image's fence
\* when the entry is set (lines 82-84).  (Presenting an image no acquire handed out is
\* invalid use of the platform: from then on the presentation engine's waits
\* are not followed.)
submitCommandBuffersEnter ==
    /\ phase = "ready"
    /\ pc = "idle"
    /\ \E i \in 0 .. (imageCount(sc) - 1) :
          /\ imageIndex' = i
          /\ afterAcquire' = (afterAcquire /\ FollowsAcquire(i))
          /\ presentWaits' = IF afterAcquire /\ FollowsAcquire(i) THEN presentWaits ELSE {}
          /\ platform' = IF sc.imagesInFlight[i + 1] # VK_NULL_HANDLE
                         THEN [call |-> "waitForFences", result |-> Running,
                               value |-> NoImage]
                         ELSE platform
    /\ returned' = [op |-> "submitCommandBuffers", result |-> Running, value |-> NoImage]
    /\ pc' = "submit_wait"
    /\ UNCHANGED <<phase, sc, fences, pending,
                   destroyed, slotUsed, scenario,
                   negotiation,
                   created, untracked>>

\* Variant of ImageFenceWait: the wait is made on every frame slot's fence,
\* whatever the image's entry holds.
ImageFenceWait_AllSlots(o, i) ==
    \A k \in 1 .. Len(o.inFlightFences) : waitForFences(o.inFlightFences[k])

\* Variant of ImageFenceWait: submitCommandBuffers without lines 82-84.
ImageFenceWait_Skipped(o, i) == TRUE

\* submitCommandBuffers, lines 82-84: the wait on the image's fence, if any.
ImageFenceWait(o, i) ==
    o.imagesInFlight[i + 1] # VK_NULL_HANDLE => waitForFences(o.imagesInFlight[i + 1])

\* Variant of NextFrame: the index advances whatever present handed back.
NextFrame_Always(frame, r) == (frame + 1) % MAX_FRAMES_IN_FLIGHT

\* Variant of NextFrame: the index advances without the modulo.
NextFrame_NoWrap(frame, r) == IF r # eSuccess THEN frame ELSE frame + 1

\* submitCommandBuffers, lines 111-115: the frame index after a present
\* that handed back r.
NextFrame(frame, r) ==
    IF r # eSuccess THEN frame ELSE (frame + 1) % MAX_FRAMES_IN_FLIGHT

\* Variant of SubmitResult: a present that did not succeed is reported as
\* eSuccess unless the swap chain is out of date.
SubmitResult_Swallowed(r) == IF r = eErrorOutOfDateKHR THEN r ELSE eSuccess

\* submitCommandBuffers, lines 111-117: the code returned for present result r.
SubmitResult(r) == IF r # eSuccess THEN r ELSE r

\* The GPU retires the pending submissions in any order, so only which
\* submissions are pending matters: the model keeps them as a sequence ordered
\* by image index and fence, with equal submissions next to each other.
Precedes(a, b) == a.image < b.image \/ (a.image = b.image /\ a.fence <= b.fence)

InsertInOrder(q, s) ==
    LET before == Cardinality({ k \in 1 .. Len(q) : Precedes(q[k], s) }) IN
    [k \in 1 .. (Len(q) + 1) |->
        IF k <= before THEN q[k] ELSE IF k = before + 1 THEN s ELSE q[k - 1]]

\* Variant of QueueSubmit: the submission never reaches the queue.
QueueSubmit_Lost(q, image, f, sem) == q

\* graphicsQueue().submit(submitInfo, inFlightFences[currentFrame]), lines
\* 87-100: the submission renders to the image, and on completion signals the
\* fence and the semaphore renderFinishedSemaphores[currentFrame].
QueueSubmit(q, image, f, sem) ==
    InsertInOrder(q, [image |-> image, fence |-> f, signal |-> sem])

\* submitCommandBuffers, lines 82-117: past the wait, the current slot's fence
\* becomes the image's fence, is reset and goes with the queue submission;
\* then the image is queued for presentation and the frame index advanced.
\* The model lists at most MaxPending unretired submissions; the submission
\* that would be one more ends the listing (untracked).
submitCommandBuffers ==
    /\ phase = "ready"
    /\ pc = "submit_wait"
    /\ ImageFenceWait(sc, imageIndex)
    /\ LET f == sc.inFlightFences[sc.currentFrame + 1] IN
       /\ fences' = [fences EXCEPT ![f] = FALSE]
       /\ pending' = IF untracked \/ Len(pending) >= MaxPending
                      THEN << >>
                      ELSE QueueSubmit(pending, imageIndex, f,
                                       sc.renderFinishedSemaphores[sc.currentFrame + 1])
       /\ untracked' = (untracked \/ Len(pending) >= MaxPending)
       /\ presentWaits' =
             IF afterAcquire
             THEN PresentQueued(presentWaits, imageIndex,
                                sc.renderFinishedSemaphores[sc.currentFrame + 1])
             ELSE {}
       /\ \E r \in ResultCodes :
            /\ platform' = [call |-> "presentKHR", result |-> r, value |-> NoImage]
            /\ returned' = [op |-> "submitCommandBuffers",
                            result |-> SubmitResult(r), value |-> NoImage]
            /\ sc' = [sc EXCEPT
                        !.imagesInFlight = SetAt(sc.imagesInFlight, imageIndex, f),
                        !.currentFrame = NextFrame(sc.currentFrame, r)]
            /\ scenario' = ScenarioSubmit(scenario, r, imageIndex)
    /\ slotUsed' = slotUsed \cup {sc.currentFrame}
    /\ imageIndex' = NoImage
    /\ pc' = "idle"
    /\ UNCHANGED <<phase, destroyed,
                   negotiation,
                   created,
                   afterAcquire>>

\* The GPU retires one queue submission and signals its fence.
GpuRetire ==
    /\ phase = "ready"
    /\ \E k \in 1 .. Len(pending) :
          /\ fences' = [fences EXCEPT ![pending[k].fence] = TRUE]
          /\ pending' = RemoveAt(pending, k)
    /\ UNCHANGED <<phase, sc, pc, imageIndex,
                   returned,
                   platform, destroyed, slotUsed, scenario,
                   negotiation,
                   created,
                   presentWaits,
                   afterAcquire, untracked>>

\* With the submissions no longer listed, the GPU retires one that signals an
\* unsignaled fence: every unsignaled fence was reset at line 99 by a call
\* that went on to submit with it at line 100.
GpuRetireUntracked ==
    /\ phase = "ready"
    /\ untracked
    /\ \E f \in DOMAIN fences :
          /\ ~fences[f]
          /\ fences' = [fences EXCEPT ![f] = TRUE]
    /\ UNCHANGED <<phase, sc, pending, pc, imageIndex,
                   returned,
                   platform, destroyed, slotUsed, scenario,
                   negotiation,
                   created,
                   presentWaits,
                   afterAcquire, untracked>>

\* The presentation engine completes the wait a queued present (lines
\* 102-110) makes on its semaphore, at some time after the submission that
\* signals the semaphore has retired; no fence tells the host when.
PresentEngine ==
    /\ phase = "ready"
    /\ \E w \in presentWaits :
          /\ \A k \in 1 .. Len(pending) : pending[k].signal # w.semaphore
          /\ presentWaits' = presentWaits \ {w}
    /\ UNCHANGED <<phase, sc, fences, pending, pc,
                   imageIndex, returned, platform, destroyed, slotUsed, scenario,
                   negotiation, created, afterAcquire, untracked>>

\* ------------------------------------------------------------- destruction

\* s[i] as the destructor reads it: an index past the end of the vector is
\* undefined behaviour, and u is the value such a read comes back with.
At(s, i, u) == IF i \in DOMAIN s THEN s[i] ELSE u

\* ~LveSwapChain(), lines 36-56: the destroy calls up to the render pass.
\* The swap chain is destroyed only when its handle is set; the render pass is
\* passed to destroyRenderPass whatever its handle.
DestroyCallsBeforeSync(o) ==
    [i \in 1 .. Len(o.swapChainImageViews) |->
        [kind |-> "ImageView", handle |-> o.swapChainImageViews[i]]]
    \o (IF o.swapChain # VK_NULL_HANDLE
        THEN << [kind |-> "SwapchainKHR", handle |-> o.swapChain] >>
        ELSE << >>)
    \o [j \in 1 .. 3 * Len(o.depthImages) |->
        LET i == (j + 2) \div 3 IN
        IF j % 3 = 1 THEN [kind |-> "DepthImageView", handle |-> o.depthImageViews[i]]
        ELSE IF j % 3 = 2 THEN [kind |-> "Image", handle |-> o.depthImages[i]]
        ELSE [kind |-> "Memory", handle |-> o.depthImageMemorys[i]]]
    \o [i \in 1 .. Len(o.swapChainFramebuffers) |->
        [kind |-> "Framebuffer", handle |-> o.swapChainFramebuffers[i].handle]]
    \o << [kind |-> "RenderPass", handle |-> o.renderPass] >>

\* ~LveSwapChain(), lines 58-62: the loop over MAX_FRAMES_IN_FLIGHT slots,
\* which indexes the three vectors without looking at their sizes.
DestroyCallsSync(o, u) ==
    [j \in 1 .. 3 * MAX_FRAMES_IN_FLIGHT |->
        LET i == (j + 2) \div 3 IN
        IF j % 3 = 1
        THEN [kind |-> "RenderFinishedSemaphore",
              handle |-> At(o.renderFinishedSemaphores, i, u[j])]
        ELSE IF j % 3 = 2
        THEN [kind |-> "ImageAvailableSemaphore",
              handle |-> At(o.imageAvailableSemaphores, i, u[j])]
        ELSE [kind |-> "Fence", handle |-> At(o.inFlightFences, i, u[j])]]

\* Variant of DestroyCalls: the framebuffers are destroyed before the image
\* views, the swap chain and the depth resources.
DestroyCalls_FramebuffersFirst(o, u) ==
    [i \in 1 .. Len(o.swapChainFramebuffers) |->
        [kind |-> "Framebuffer", handle |-> o.swapChainFramebuffers[i].handle]]
    \o [i \in 1 .. Len(o.swapChainImageViews) |->
        [kind |-> "ImageView", handle |-> o.swapChainImageViews[i]]]
    \o (IF o.swapChain # VK_NULL_HANDLE
        THEN << [kind |-> "SwapchainKHR", handle |-> o.swapChain] >>
        ELSE << >>)
    \o [j \in 1 .. 3 * Len(o.depthImages) |->
        LET i == (j + 2) \div 3 IN
        IF j % 3 = 1 THEN [kind |-> "DepthImageView", handle |-> o.depthImageViews[i]]
        ELSE IF j % 3 = 2 THEN [kind |-> "Image", handle |-> o.depthImages[i]]
        ELSE [kind |-> "Memory", handle |-> o.depthImageMemorys[i]]]
    \o << [kind |-> "RenderPass", handle |-> o.renderPass] >>
    \o DestroyCallsSync(o, u)

\* Variant of DestroyCalls: the strict reverse of the creation order.
DestroyCalls_Reverse(o, u) ==
    DestroyCallsSync(o, u)
    \o [i \in 1 .. Len(o.swapChainFramebuffers) |->
        [kind |-> "Framebuffer", handle |-> o.swapChainFramebuffers[i].handle]]
    \o [j \in 1 .. 3 * Len(o.depthImages) |->
        LET i == (j + 2) \div 3 IN
        IF j % 3 = 1 THEN [kind |-> "DepthImageView", handle |-> o.depthImageViews[i]]
        ELSE IF j % 3 = 2 THEN [kind |-> "Image", handle |-> o.depthImages[i]]
        ELSE [kind |-> "Memory", handle |-> o.depthImageMemorys[i]]]
    \o << [kind |-> "RenderPass", handle |-> o.renderPass] >>
    \o [i \in 1 .. Len(o.swapChainImageViews) |->
        [kind |-> "ImageView", handle |-> o.swapChainImageViews[i]]]
    \o (IF o.swapChain # VK_NULL_HANDLE
        THEN << [kind |-> "SwapchainKHR", handle |-> o.swapChain] >>
        ELSE << >>)

\* ~LveSwapChain(), lines 36-62: the destroy calls, in the order issued.
DestroyCalls(o, u) == DestroyCallsBeforeSync(o) \o DestroyCallsSync(o, u)

\* Every index of the loop of lines 58-62 is inside the three vectors.
SyncInRange(o) ==
    /\ Len(o.renderFinishedSemaphores) >= MAX_FRAMES_IN_FLIGHT
    /\ Len(o.imageAvailableSemaphores) >= MAX_FRAMES_IN_FLIGHT
    /\ Len(o.inFlightFences) >= MAX_FRAMES_IN_FLIGHT

\* What a read past the end of a vector can come back with: the null handle
\* or a value that is no semaphore or fence of the object.
IndeterminateHandles == {VK_NULL_HANDLE, MAX_FRAMES_IN_FLIGHT + 1}

\* The runs the destructor can take.  With every index in range there is one.
\* Otherwise the reads past the end are undefined behaviour: each returns an
\* indeterminate value that is handed to the destroy call, or the first of
\* them faults and the process ends before any sync object is destroyed.
DestroyOutcomes(o) ==
    IF SyncInRange(o)
    THEN { [ calls |-> DestroyCalls(o, [j \in 1 .. 3 * MAX_FRAMES_IN_FLIGHT |-> VK_NULL_HANDLE]),
             faulted |-> FALSE ] }
    ELSE { [ calls |-> DestroyCalls(o, u), faulted |-> FALSE ] :
             u \in [1 .. 3 * MAX_FRAMES_IN_FLIGHT -> IndeterminateHandles] }
         \cup { [ calls |-> DestroyCallsBeforeSync(o), faulted |-> TRUE ] }

\* ~LveSwapChain(), lines 35-63: issues the destroy calls; no wait precedes
\* them.  It runs on a constructed object only: a constructor that throws
\* leaves no object, and the destructor is not run.
Destroy ==
    /\ phase = "ready"
    /\ pc = "idle"
    /\ \E run \in DestroyOutcomes(sc) :
        /\ destroyed' = run.calls
        /\ phase' = IF run.faulted THEN "faulted" ELSE "destroyed"
        /\ platform' = [call |-> run.calls[Len(run.calls)].kind,
                         result |-> eSuccess, value |-> NoImage]
    /\ returned' = [op |-> "~LveSwapChain", result |-> eSuccess, value |-> NoImage]
    /\ sc' = [sc EXCEPT !.swapChainImageViews = <<>>, !.swapChain = VK_NULL_HANDLE]
    /\ UNCHANGED <<fences, pending, pc, imageIndex,
                   slotUsed, scenario,
                   negotiation,
                   created,
                   presentWaits,
                   afterAcquire, untracked>>

\* ----------------------------------------------------------- specification

Init ==
    /\ phase = "unconstructed"
    /\ sc = DefaultMembers(nullptr)
    /\ fences = << >>
    /\ pending = << >>
    /\ pc = "idle"
    /\ imageIndex = NoImage
    /\ returned = [op |-> "none", result |-> eSuccess, value |-> NoImage]
    /\ platform = [call |-> "none", result |-> eSuccess, value |-> NoImage]
    /\ destroyed = << >>
    /\ slotUsed = {}
    /\ scenario = ScenarioStart
    /\ negotiation = NoNegotiation
    /\ created = << >>
    /\ presentWaits = {}
    /\ afterAcquire = TRUE
    /\ untracked = FALSE

Next ==
    \/ Construct
    \/ ConstructFrom
    \/ acquireNextImageEnter
    \/ acquireNextImage
    \/ submitCommandBuffersEnter
    \/ submitCommandBuffers
    \/ GpuRetire
    \/ GpuRetireUntracked
    \/ PresentEngine
    \/ Destroy

Spec == Init /\ [][Next]_vars

\* The negotiation functions on their own: every argument, then the call.
InitNegotiation ==
    /\ phase = "unconstructed"
    /\ sc = DefaultMembers(nullptr)
    /\ fences = << >>
    /\ pending = << >>
    /\ pc = "idle"
    /\ imageIndex = NoImage
    /\ returned = [op |-> "none", result |-> eSuccess, value |-> NoImage]
    /\ platform = [call |-> "none", result |-> eSuccess, value |-> NoImage]
    /\ destroyed = << >>
    /\ slotUsed = {}
    /\ scenario = ScenarioStart
    /\ negotiation \in NegotiationCalls
    /\ created = << >>
    /\ presentWaits = {}
    /\ afterAcquire = TRUE
    /\ untracked = FALSE

NextNegotiation ==
    \/ CallChooseSwapExtent
    \/ CallChooseSwapPresentMode
    \/ CallImageCount

SpecNegotiation == InitNegotiation /\ [][NextNegotiation]_vars

\* The constructors whose init() stops early, at every call that can throw.
NextPartial == ConstructFails

SpecPartial == Init /\ [][NextPartial]_vars

TypeOK ==
    /\ phase \in {"unconstructed", "ready", "partial", "destroyed", "faulted"}
    /\ pc \in {"idle", "acquire_wait", "submit_wait"}
    /\ sc.currentFrame \in Nat
    /\ untracked \in BOOLEAN
    /\ untracked => pending = << >>
    /\ ~untracked => Len(pending) <= MaxPending

\* ------------------------------------------------------------------ claims

\* Image index i has an unretired queue submission.
Unretired(i) == \E k \in 1 .. Len(pending) : pending[k].image = i

\* The fence the per-image map holds for image index i.
ImageFence(i) == sc.imagesInFlight[i + 1]

\* The step in which a submitCommandBuffers call goes past its wait and ends.
SubmitStep == pc = "submit_wait" /\ pc' = "idle"

\* C1: while every submit has followed an acquire that handed out its image
\* index, no two unretired queue submissions target the same image index, i.e.
\* no submission on image i is issued while an earlier one on i is unretired.
C1_NoTwoUnretiredOnImage ==
    afterAcquire =>
        \A a, b \in 1 .. Len(pending) :
            a # b => pending[a].image # pending[b].image

\* C1 witness: with more images than frame slots and every submit following
\* its acquire, a submit for image i has been entered while an earlier
\* submission on image i is still unretired.
C1_Witness ==
    /\ afterAcquire
    /\ imageCount(sc) > MAX_FRAMES_IN_FLIGHT
    /\ pc = "submit_wait"
    /\ Unretired(imageIndex)

\* A submitCommandBuffers call is in progress for an image whose per-image
\* fence entry is set to a fence that is not signaled.
SubmitBlocked ==
    /\ pc = "submit_wait"
    /\ ImageFence(imageIndex) # VK_NULL_HANDLE
    /\ ~fences[ImageFence(imageIndex)]

\* C2: while submitCommandBuffers is called for an image whose per-image fence
\* is set and unsignaled, no step overwrites the per-image map, resets a
\* fence, submits to the graphics queue or presents.
C2_BlockedSubmitDoesNothing ==
    [][SubmitBlocked =>
          /\ sc' = sc
          /\ \A f \in DOMAIN fences : fences[f] => fences'[f]
          /\ Len(pending') <= Len(pending)
          /\ platform' = platform
          /\ returned' = returned]_vars

\* C2 witness: a blocked submitCommandBuffers call.
C2_Witness == SubmitBlocked

\* C3: currentFrame starts at 0, advances by one modulo MAX_FRAMES_IN_FLIGHT
\* in every submitCommandBuffers whose present hands back eSuccess, and is
\* changed by no other step.
C3_FrameAdvancesOnSuccess ==
    /\ sc.currentFrame = 0
    /\ [][IF SubmitStep /\ platform'.result = eSuccess
          THEN sc'.currentFrame = (sc.currentFrame + 1) % MAX_FRAMES_IN_FLIGHT
          ELSE sc'.currentFrame = sc.currentFrame]_vars

\* C3 witness: the index has gone round the ring: every slot was submitted
\* on and the last present, a success, brought the index back to 0.
C3_Witness ==
    /\ slotUsed = FrameSlots
    /\ returned.op = "submitCommandBuffers"
    /\ platform.result = eSuccess
    /\ sc.currentFrame = 0

\* C4: when present hands back a code other than eSuccess,
\* submitCommandBuffers returns that code and leaves currentFrame as it was.
C4_FailedPresentPropagates ==
    [][SubmitStep /\ platform'.result # eSuccess =>
          /\ returned'.result = platform'.result
          /\ sc'.currentFrame = sc.currentFrame]_vars

\* C4 witness: a submit on slot 1 returned after present handed back
\* eSuboptimalKHR, and the index is still 1.
C4_Witness ==
    /\ returned.op = "submitCommandBuffers"
    /\ platform.call = "presentKHR"
    /\ platform.result = eSuboptimalKHR
    /\ sc.currentFrame = 1

\* The queue submission of the scenario's first submit (image 0, the fence of
\* frame slot 0) has been retired by the GPU and its fence is signaled.
FirstSubmissionRetired ==
    /\ fences[sc.inFlightFences[1]]
    /\ \A k \in 1 .. Len(pending) : pending[k].fence # sc.inFlightFences[1]

\* C5: with 3 images and 2 frame slots, in the run acquire (image 0), submit,
\* acquire (image 1), submit, acquire (image 2) with every present succeeding,
\* the acquires run with currentFrame 0, 1, 0, and the third acquire hands out
\* its image only once the GPU has signaled the fence of the first submission.
C5_ScenarioWaitsOnSlot0 ==
    /\ [](imageCount(sc) = 3 /\ MAX_FRAMES_IN_FLIGHT = 2 /\ scenario.step = 4
            => sc.currentFrame = 0)
    /\ [](imageCount(sc) = 3 /\ MAX_FRAMES_IN_FLIGHT = 2 /\ scenario.step = 5
            => scenario.frames = <<0, 1, 0>>)
    /\ [][imageCount(sc) = 3 /\ MAX_FRAMES_IN_FLIGHT = 2
            /\ scenario.step = 4 /\ scenario'.step = 5
            => FirstSubmissionRetired]_vars

\* C5 witness: the scenario has run to its end on a 3-image swap chain, and
\* its third acquire was entered while the fence of slot 0 was unsignaled.
C5_Witness ==
    /\ imageCount(sc) = 3
    /\ scenario.step = 5
    /\ scenario.waited

\* C6: the fence of a frame slot on which nothing has been submitted is
\* signaled, so an acquireNextImage on that slot is not held at its wait.
C6_FreshSlotFenceSignaled ==
    phase = "ready" =>
        \A slot \in FrameSlots \ slotUsed : fences[sc.inFlightFences[slot + 1]]

\* C6 witness: acquireNextImage is at its wait on frame slot 1, on which
\* nothing has been submitted yet.
C6_Witness ==
    /\ pc = "acquire_wait"
    /\ sc.currentFrame = 1
    /\ 1 \notin slotUsed

\* C7: currentFrame is always in 0 .. MAX_FRAMES_IN_FLIGHT - 1.
C7_FrameInRange == sc.currentFrame \in FrameSlots

\* C7 witness: the index is at the last slot after a present that failed
\* there, following presents that succeeded.
C7_Witness ==
    /\ sc.currentFrame = MAX_FRAMES_IN_FLIGHT - 1
    /\ returned.op = "submitCommandBuffers"
    /\ returned.result = eErrorOutOfDateKHR

\* C8 (as claimed): when the destructor has issued its destroy calls, no
\* queue submission made through the swap chain is unretired.
C8_TeardownAfterRetire == phase = "destroyed" => (pending = << >> /\ ~untracked)

\* C9: the old-swapchain hint handed to the platform is the predecessor's
\* swap chain handle, or the null handle without a predecessor, and the
\* constructed object holds no reference to the predecessor.
C9_PredecessorHintThenReleased ==
    /\ (returned.op = "LveSwapChain" /\ platform.call = "createSwapchainKHR") =>
          platform.createInfo.oldSwapchain =
              (IF returned.previous = nullptr
               THEN VK_NULL_HANDLE
               ELSE returned.previous[1].swapChain)
    /\ phase # "unconstructed" => sc.oldSwapChain = nullptr

\* C9 witness: a swap chain constructed from a predecessor.
C9_Witness ==
    /\ phase = "ready"
    /\ returned.op = "LveSwapChain"
    /\ returned.previous # nullptr
    /\ platform.createInfo.oldSwapchain # VK_NULL_HANDLE

\* C10: after construction the color views, the depth images, memories and
\* views, the framebuffers and the per-image fences are as many as the images
\* the platform created.
C10_SequencesMatchImageCount ==
    phase = "ready" =>
        /\ imageCount(sc) >= 1
        /\ Len(sc.swapChainImageViews) = imageCount(sc)
        /\ Len(sc.depthImages) = imageCount(sc)
        /\ Len(sc.depthImageMemorys) = imageCount(sc)
        /\ Len(sc.depthImageViews) = imageCount(sc)
        /\ Len(sc.swapChainFramebuffers) = imageCount(sc)
        /\ Len(sc.imagesInFlight) = imageCount(sc)

\* C10 witness: the platform created more images than the minimum asked for.
C10_Witness ==
    /\ phase = "ready"
    /\ platform.call = "createSwapchainKHR"
    /\ imageCount(sc) > platform.createInfo.minImageCount


\* A call of the negotiation function fn has returned.
Returned(fn) == negotiation.fn = fn /\ negotiation.ret # << >>

\* x limited to the range lo .. hi.
ClampTo(x, lo, hi) == IF x < lo THEN lo ELSE IF x > hi THEN hi ELSE x

\* The window extent limited per dimension to the capabilities' extent range.
ClampedWindowExtent(a) ==
    [ width  |-> ClampTo(a.windowExtent.width,
                         a.minImageExtent.width, a.maxImageExtent.width),
      height |-> ClampTo(a.windowExtent.height,
                         a.minImageExtent.height, a.maxImageExtent.height) ]

\* C11 as stated: capabilities carrying the sentinel (UINT32_MAX) yield the
\* current extent exactly, every other capabilities yield the window extent
\* clamped per dimension to the extent range.
C11_SentinelYieldsCurrentExtent ==
    Returned("chooseSwapExtent") =>
        negotiation.ret[1] =
            IF negotiation.arg.currentExtent.width = UINT32_MAX
            THEN negotiation.arg.currentExtent
            ELSE ClampedWindowExtent(negotiation.arg)

\* C11, amended: a current extent whose width is not the sentinel
\* (UINT32_MAX) is returned exactly; when the width is the sentinel, the window
\* extent clamped per dimension to the extent range is returned.
C11_ExtentSelection ==
    Returned("chooseSwapExtent") =>
        negotiation.ret[1] =
            IF negotiation.arg.currentExtent.width # UINT32_MAX
            THEN negotiation.arg.currentExtent
            ELSE ClampedWindowExtent(negotiation.arg)

\* C11 witness: with the sentinel reported, a window narrower than the minimum
\* and taller than the maximum was widened and shortened to the range.
C11_Witness ==
    /\ Returned("chooseSwapExtent")
    /\ negotiation.arg.currentExtent.width = UINT32_MAX
    /\ negotiation.arg.windowExtent.width < negotiation.arg.minImageExtent.width
    /\ negotiation.arg.windowExtent.height > negotiation.arg.maxImageExtent.height
    /\ negotiation.ret[1] = [ width  |-> negotiation.arg.minImageExtent.width,
                              height |-> negotiation.arg.maxImageExtent.height ]

\* C12: for every list of present modes the call returns, and it returns
\* eMailbox when eMailbox is anywhere in the list and eFifo otherwise.
C12_MailboxElseFifo ==
    /\ (negotiation.fn = "chooseSwapPresentMode" /\ negotiation.ret = << >>)
          => ENABLED CallChooseSwapPresentMode
    /\ Returned("chooseSwapPresentMode") =>
          negotiation.ret[1] =
              IF \E k \in DOMAIN negotiation.arg : negotiation.arg[k] = eMailbox
              THEN eMailbox
              ELSE eFifo

\* C12 witness: eMailbox was found in the last place of a list that starts
\* with another mode.
C12_Witness ==
    /\ Returned("chooseSwapPresentMode")
    /\ Len(negotiation.arg) >= 2
    /\ negotiation.arg[1] = eImmediate
    /\ negotiation.arg[Len(negotiation.arg)] = eMailbox
    /\ negotiation.ret[1] = eMailbox

\* C13 as stated: the requested image count is at least the minimum plus one
\* and at most a nonzero maximum.
C13_AtLeastMinPlusOne ==
    Returned("imageCount") =>
        /\ negotiation.ret[1] >= negotiation.arg.minImageCount + 1
        /\ negotiation.arg.maxImageCount # 0
              => negotiation.ret[1] <= negotiation.arg.maxImageCount

\* C13, amended: the requested image count never exceeds a nonzero maximum,
\* is never below the minimum nor above the minimum plus one, and is the
\* minimum plus one whenever the maximum allows that many.
C13_RequestedImageCount ==
    Returned("imageCount") =>
        /\ negotiation.arg.maxImageCount # 0
              => negotiation.ret[1] <= negotiation.arg.maxImageCount
        /\ negotiation.ret[1] >= negotiation.arg.minImageCount
        /\ negotiation.ret[1] <= negotiation.arg.minImageCount + 1
        /\ (\/ negotiation.arg.maxImageCount = 0
            \/ negotiation.arg.maxImageCount >= negotiation.arg.minImageCount + 1)
              => negotiation.ret[1] = negotiation.arg.minImageCount + 1

\* C13 witness: the maximum equals the minimum and the maximum was requested.
C13_Witness ==
    /\ Returned("imageCount")
    /\ negotiation.arg.maxImageCount = negotiation.arg.minImageCount
    /\ negotiation.ret[1] = negotiation.arg.maxImageCount

\* The resource category a step of init() creates.
StepCategory(step) ==
    CASE step = "createSwapChain"      -> "swap chain"
      [] step = "createImageViews"     -> "image views"
      [] step = "createRenderPass"     -> "render pass"
      [] step = "createDepthResources" -> "depth resources"
      [] step = "createFramebuffers"   -> "framebuffers"
      [] step = "createSyncObjects"    -> "sync objects"

\* The resource category a destroy call releases.
CallCategory(call) ==
    CASE call.kind = "SwapchainKHR" -> "swap chain"
      [] call.kind = "ImageView"    -> "image views"
      [] call.kind = "RenderPass"   -> "render pass"
      [] call.kind \in {"DepthImageView", "Image", "Memory"} -> "depth resources"
      [] call.kind = "Framebuffer"  -> "framebuffers"
      [] call.kind \in {"RenderFinishedSemaphore", "ImageAvailableSemaphore", "Fence"}
            -> "sync objects"

\* A sequence with every run of equal neighbours reduced to one element.
RECURSIVE Collapse(_)
Collapse(s) ==
    IF Len(s) <= 1 THEN s
    ELSE IF s[1] = s[2] THEN Collapse(Tail(s))
    ELSE << s[1] >> \o Collapse(Tail(s))

Reverse(s) == [k \in 1 .. Len(s) |-> s[Len(s) + 1 - k]]

\* The categories in the order init() created them.
CreationOrder == [k \in 1 .. Len(created) |-> StepCategory(created[k])]

\* The categories in the order the destructor released them.
DestructionOrder ==
    Collapse([k \in 1 .. Len(destroyed) |-> CallCategory(destroyed[k])])

\* The creation order C14 states.
StatedCreationOrder ==
    << "swap chain", "image views", "render pass", "depth resources",
       "framebuffers", "sync objects" >>

\* The destruction order C15 states.
StatedDestructionOrder ==
    << "image views", "swap chain", "depth resources", "framebuffers",
       "render pass", "sync objects" >>

\* C14 as stated: creation runs swap chain, image views, render pass, depth
\* resources, framebuffers, sync objects, and destruction runs in the strict
\* reverse of that order.
C14_DestroyedInReverseOrder ==
    phase = "destroyed" =>
        /\ CreationOrder = StatedCreationOrder
        /\ DestructionOrder = Reverse(CreationOrder)

\* C14, amended: creation runs swap chain, image views, render pass, depth
\* resources, framebuffers, sync objects; destruction runs image views, swap
\* chain, depth resources, framebuffers, render pass, sync objects, which is
\* not the reverse of the creation order.
C14_CreationAndDestructionOrder ==
    phase = "destroyed" =>
        /\ CreationOrder = StatedCreationOrder
        /\ DestructionOrder = StatedDestructionOrder
        /\ DestructionOrder # Reverse(CreationOrder)

\* C14 witness: a swap chain of several images was constructed and destroyed.
C14_Witness ==
    /\ phase = "destroyed"
    /\ created = initSteps
    /\ imageCount(sc) >= 2
    /\ Len(destroyed) > Len(created)

\* The destroy calls that release what the constructed object holds: the view
\* and the depth view every framebuffer binds, the swap chain, the depth
\* images and memories, the framebuffers, the render pass, and the two
\* semaphores and the fence of every frame slot.
CallsOwed ==
    { [kind |-> "ImageView", handle |-> sc.swapChainFramebuffers[i].color] :
        i \in 1 .. Len(sc.swapChainFramebuffers) }
    \cup { [kind |-> "SwapchainKHR", handle |-> NewHandle] }
    \cup { [kind |-> "DepthImageView", handle |-> sc.swapChainFramebuffers[i].depth] :
        i \in 1 .. Len(sc.swapChainFramebuffers) }
    \cup { [kind |-> "Image", handle |-> sc.depthImages[i]] :
        i \in 1 .. Len(sc.depthImages) }
    \cup { [kind |-> "Memory", handle |-> sc.depthImageMemorys[i]] :
        i \in 1 .. Len(sc.depthImageMemorys) }
    \cup { [kind |-> "Framebuffer", handle |-> sc.swapChainFramebuffers[i].handle] :
        i \in 1 .. Len(sc.swapChainFramebuffers) }
    \cup { [kind |-> "RenderPass", handle |-> sc.renderPass] }
    \cup { [kind |-> "RenderFinishedSemaphore", handle |-> sc.renderFinishedSemaphores[i]] :
        i \in 1 .. Len(sc.renderFinishedSemaphores) }
    \cup { [kind |-> "ImageAvailableSemaphore", handle |-> sc.imageAvailableSemaphores[i]] :
        i \in 1 .. Len(sc.imageAvailableSemaphores) }
    \cup { [kind |-> "Fence", handle |-> sc.inFlightFences[i]] :
        i \in 1 .. Len(sc.inFlightFences) }

\* The categories were released in the order C15 states, and every handle
\* was destroyed exactly once.
ReleasedInStatedOrderOnce ==
    /\ DestructionOrder = StatedDestructionOrder
    /\ { destroyed[k] : k \in 1 .. Len(destroyed) } = CallsOwed
    /\ \A a, b \in 1 .. Len(destroyed) : a # b => destroyed[a] # destroyed[b]

\* The place of a destroy call in the destructor's run.
PlaceOf(kind, handle) ==
    CHOOSE k \in 1 .. Len(destroyed) :
        destroyed[k] = [kind |-> kind, handle |-> handle]

\* C15 as stated: the categories are released in the stated order, each
\* handle once, and every framebuffer is destroyed before the image view and
\* the depth view it binds.
C15_NoFramebufferOutlivesItsViews ==
    phase = "destroyed" =>
        /\ ReleasedInStatedOrderOnce
        /\ \A i \in 1 .. Len(sc.swapChainFramebuffers) :
            LET fb == sc.swapChainFramebuffers[i] IN
            /\ PlaceOf("Framebuffer", fb.handle) < PlaceOf("ImageView", fb.color)
            /\ PlaceOf("Framebuffer", fb.handle) < PlaceOf("DepthImageView", fb.depth)

\* C15, amended: the categories are released in the stated order, each handle
\* once; every framebuffer is destroyed after the image view and the depth
\* view it binds, so it is still alive when they are destroyed.
C15_ReleaseOrder ==
    phase = "destroyed" =>
        /\ ReleasedInStatedOrderOnce
        /\ \A i \in 1 .. Len(sc.swapChainFramebuffers) :
            LET fb == sc.swapChainFramebuffers[i] IN
            /\ PlaceOf("Framebuffer", fb.handle) > PlaceOf("ImageView", fb.color)
            /\ PlaceOf("Framebuffer", fb.handle) > PlaceOf("DepthImageView", fb.depth)

\* C15 witness: the destructor ran on a swap chain of MaxImages images and
\* released the first image view before anything else, the last fence last.
C15_Witness ==
    /\ phase = "destroyed"
    /\ Len(sc.swapChainFramebuffers) = MaxImages
    /\ destroyed[1].kind = "ImageView"
    /\ destroyed[Len(destroyed)].kind = "Fence"

\* A destroy call on a handle that was created: not the null handle, and for
\* a semaphore or fence one of the handles createSyncObjects hands out.
OnCreatedHandle(call) ==
    /\ call.handle # VK_NULL_HANDLE
    /\ CallCategory(call) = "sync objects" => call.handle \in 1 .. MAX_FRAMES_IN_FLIGHT

\* C16 (as claimed): the destruction sequence of lines 36-62, run on the
\* members a constructor left behind when init() stopped early, indexes no
\* vector past its end and issues destroy calls only on handles that were
\* created.  (The code never runs it there: the handles stay undestroyed.)
C16_PartialTeardownSafe ==
    phase = "partial" =>
        \A run \in DestroyOutcomes(sc) :
            /\ ~run.faulted
            /\ \A k \in 1 .. Len(run.calls) : OnCreatedHandle(run.calls[k])

\* The fence of the current frame slot.
SlotFence == sc.inFlightFences[sc.currentFrame + 1]

\* The render-finished semaphore of the current frame slot.
SlotSemaphore == sc.renderFinishedSemaphores[sc.currentFrame + 1]

\* Some pending queue submission signals fence f on completion.
PendingOn(f) == \E k \in 1 .. Len(pending) : pending[k].fence = f

\* C17: after construction every entry of the per-image fence map is null;
\* a submitCommandBuffers call for an image whose entry is null is not held
\* by any fence, and its step stores the current slot's fence in the entry,
\* resets that fence and queues the submission with it (the queue is looked
\* at while the unretired submissions are listed).
C17_UnsetEntryNoWait ==
    /\ [](phase = "ready" /\ slotUsed = {} =>
            \A i \in 1 .. imageCount(sc) : sc.imagesInFlight[i] = VK_NULL_HANDLE)
    /\ []((phase = "ready" /\ pc = "submit_wait"
                /\ ImageFence(imageIndex) = VK_NULL_HANDLE)
            => ENABLED submitCommandBuffers)
    /\ [][(SubmitStep /\ ImageFence(imageIndex) = VK_NULL_HANDLE) =>
            /\ sc'.imagesInFlight[imageIndex + 1] = SlotFence
            /\ ~fences'[SlotFence]
            /\ ~untracked' =>
                  /\ Len(pending') = Len(pending) + 1
                  /\ \E k \in 1 .. Len(pending') :
                        /\ pending'[k].image = imageIndex
                        /\ pending'[k].fence = SlotFence
                        /\ RemoveAt(pending', k) = pending]_vars

\* C17 witness: in the 3-image scenario the second submit, for image 1 that
\* was never submitted before, went through while the first submission was
\* still pending with its fence unsignaled.
C17_Witness ==
    /\ imageCount(sc) = 3
    /\ scenario.step = 4
    /\ Len(pending) = 2
    /\ sc.imagesInFlight[2] = sc.inFlightFences[2]
    /\ ~fences[sc.inFlightFences[1]]
    /\ sc.imagesInFlight[3] = VK_NULL_HANDLE

\* C18: while every submit has followed an acquire that handed out its image
\* index, the step of submitCommandBuffers that resets the current slot's
\* fence and queues a submission with it is taken only when that fence is
\* signaled and no pending submission signals it; hence no two pending
\* submissions ever signal the same fence.
C18_SlotFenceResetOnlyWhenSignaled ==
    /\ [][(SubmitStep /\ afterAcquire) =>
            (fences[SlotFence] /\ ~PendingOn(SlotFence))]_vars
    /\ [](afterAcquire =>
            \A a, b \in 1 .. Len(pending) : a # b => pending[a].fence # pending[b].fence)

\* C18 witness: after a present that did not return eSuccess left the frame
\* index on slot 0, a second submission was made with the fence of slot 0: two
\* images hold that fence and only slot 0 was ever used.
C18_Witness ==
    /\ phase = "ready"
    /\ afterAcquire
    /\ slotUsed = {0}
    /\ Cardinality({ i \in 1 .. imageCount(sc) :
                       sc.imagesInFlight[i] = sc.inFlightFences[1] }) >= 2
    /\ PendingOn(sc.inFlightFences[1])

\* C19: while the swap chain is in use, every unsignaled fence has a pending
\* queue submission that signals it on completion, so every fence wait ends
\* once the GPU completes the pending submissions.  (Stated of the states in
\* which the unretired submissions are listed: at most MaxPending so far.)
C19_UnsignaledFenceHasSubmission ==
    (phase = "ready" /\ ~untracked) =>
        \A f \in 1 .. Len(fences) : ~fences[f] => PendingOn(f)

\* C19 witness: a submit whose present did not return eSuccess left the frame
\* index on slot 0, and the next acquire is waiting on the fence that submit
\* reset, which its pending submission will signal.
C19_Witness ==
    /\ phase = "ready"
    /\ pc = "acquire_wait"
    /\ sc.currentFrame = 0
    /\ slotUsed = {0}
    /\ ~fences[SlotFence]
    /\ PendingOn(SlotFence)

\* C20 (as claimed): the step of submitCommandBuffers that gives the current
\* slot's render-finished semaphore to a new queue submission as its signal
\* semaphore is taken only when no queued present has yet to wait on it, in
\* the runs in which every submit has followed an acquire of its image index.
C20_SemaphoreNotReusedWhileAwaited ==
    [][(SubmitStep /\ afterAcquire) =>
          \A w \in presentWaits : w.semaphore # SlotSemaphore]_vars

====
